---- MODULE Spec2Model ----
(***************************************************************************)
(* remove_bg.py: load the image at `source`, convert it to RGBA, rewrite   *)
(* every near-white pixel to transparent white, write the result to        *)
(* `target` as PNG, print one line.  The whole script is one try/except.   *)
(***************************************************************************)
EXTENDS Integers, Sequences, FiniteSets, TLC

\* ------------------------------------------------------------- bounds
\* An image has at most MaxPixels pixels (width * height <= MaxPixels).
MaxPixels == 2

\* ---------------------------------------------------------- constants
\* remove_bg.py:15, the literal 240 of the near-white test.
Threshold == 240

\* remove_bg.py:4-5, the two hard-coded paths.
source == "d:\\BuddyMate\\assets\\logo.png"
target == "d:\\BuddyMate\\assets\\logo_transparent.png"

\* Mutant of Transparent: the replacement keeps full opacity.
TransparentOpaque == <<255, 255, 255, 255>>

\* remove_bg.py:16, the replacement pixel.
Transparent == <<255, 255, 255, 0>>

\* ------------------------------------------------- the input universe
\* Channel tuples the source images are drawn from.  They sit on both sides
\* of the threshold on every channel separately.
GreyVals == {<<10>>, <<240>>, <<241>>, <<255>>}
RGBVals == {<<255, 255, 255>>, <<10, 20, 30>>, <<240, 240, 240>>,
            <<241, 241, 241>>, <<241, 241, 239>>, <<241, 240, 255>>,
            <<240, 255, 241>>}
\* Four-channel source pixels: every colour fully opaque, and some colours on
\* both sides of the threshold with alpha 0 and 128.
RGBAVals == {Append(p, 255) : p \in RGBVals} \cup
            {<<255, 255, 255, 0>>, <<255, 255, 255, 128>>, <<241, 241, 241, 128>>,
             <<241, 241, 239, 128>>, <<10, 20, 30, 0>>}
Modes == {"L", "RGB", "RGBA"}

SourcePixels(mode) ==
    CASE mode = "L" -> GreyVals
      [] mode = "RGB" -> RGBVals
      [] mode = "RGBA" -> RGBAVals

\* Number of bytes per pixel of a mode (PIL's bands).
Channels(mode) ==
    CASE mode = "L" -> 1
      [] mode = "RGB" -> 3
      [] mode = "RGBA" -> 4

Sizes == {wh \in (1..MaxPixels) \X (1..MaxPixels) : wh[1] * wh[2] <= MaxPixels}

Images ==
    UNION {UNION {{[mode |-> m, width |-> wh[1], height |-> wh[2], data |-> d] :
                    d \in [1..(wh[1] * wh[2]) -> SourcePixels(m)]} :
                  wh \in Sizes} :
           m \in Modes}

\* ---------------------------------------------------------- PNG files
RECURSIVE Flatten(_)
Flatten(pixels) ==
    IF pixels = <<>> THEN <<>> ELSE Head(pixels) \o Flatten(Tail(pixels))

Regroup(bytes, n) ==
    [i \in 1..(Len(bytes) \div n) |-> SubSeq(bytes, (i - 1) * n + 1, i * n)]

\* A file on disk.  kind: "absent" (no such path), "garbage" (not an image),
\* "png" (header + interleaved row-major channel bytes; a truncated or
\* partially written file has fewer bytes than its header announces).
Absent == [kind |-> "absent", mode |-> "", width |-> 0, height |-> 0, bytes |-> <<>>]
Garbage == [kind |-> "garbage", mode |-> "", width |-> 0, height |-> 0, bytes |-> <<>>]

\* img.save(target, "PNG") of an in-memory image: lossless, channel bytes.
EncodePNG(im) ==
    [kind |-> "png", mode |-> im.mode, width |-> im.width, height |-> im.height,
     bytes |-> Flatten(im.data)]

Complete(file) ==
    /\ file.kind = "png"
    /\ Len(file.bytes) = file.width * file.height * Channels(file.mode)

\* The pixel data PIL decodes from a complete PNG file.
DecodePNG(file) ==
    [mode |-> file.mode, width |-> file.width, height |-> file.height,
     data |-> Regroup(file.bytes, Channels(file.mode))]

Truncate(file) == [file EXCEPT !.bytes = SubSeq(file.bytes, 1, Len(file.bytes) - 1)]

\* A file left at the target path by something earlier than this run.
Stale == EncodePNG([mode |-> "RGBA", width |-> 1, height |-> 1,
                    data |-> <<<<0, 0, 0, 255>>>>])

SourceFiles ==
    {Absent, Garbage} \cup {EncodePNG(im) : im \in Images}
                      \cup {Truncate(EncodePNG(im)) : im \in Images}

\* ------------------------------------------------------ pure functions
\* Mutant of ConvertPixel: a three-channel source gets alpha 0.
ConvertPixelNoAlpha(mode, p) ==
    CASE mode = "L" -> <<p[1], p[1], p[1], 255>>
      [] mode = "RGB" -> <<p[1], p[2], p[3], 0>>
      [] mode = "RGBA" -> p

\* img.convert("RGBA") on one pixel.
ConvertPixel(mode, p) ==
    CASE mode = "L" -> <<p[1], p[1], p[1], 255>>
      [] mode = "RGB" -> <<p[1], p[2], p[3], 255>>
      [] mode = "RGBA" -> p

ConvertRGBA(im) ==
    [mode |-> "RGBA", width |-> im.width, height |-> im.height,
     data |-> [i \in 1..Len(im.data) |-> ConvertPixel(im.mode, im.data[i])]]

\* Mutant of IsNearWhite: >= in place of >.
IsNearWhiteGe(item) ==
    item[1] >= Threshold /\ item[2] >= Threshold /\ item[3] >= Threshold

\* Mutant of IsNearWhite: the third test reads item[3] (alpha) in place of
\* item[2] (blue).
IsNearWhiteIndexSlip(item) ==
    item[1] > Threshold /\ item[2] > Threshold /\ item[4] > Threshold

\* remove_bg.py:15
IsNearWhite(item) ==
    item[1] > Threshold /\ item[2] > Threshold /\ item[3] > Threshold

\* remove_bg.py:15-18, the value appended for one item.
PixelOut(item) == IF IsNearWhite(item) THEN Transparent ELSE item

\* Mutant of AppendPixel: newData.insert(0, ...).
PrependPixel(list, p) == <<p>> \o list

\* Mutant of AppendPixel: a replaced pixel is dropped, not appended.
AppendPixelSkip(list, p) == IF p = <<255, 255, 255, 0>> THEN list ELSE Append(list, p)

\* newData.append(...)
AppendPixel(list, p) == Append(list, p)

\* remove_bg.py:12-18 as a whole: the list built from a sequence of items.
RECURSIVE TransformFrom(_, _)
TransformFrom(list, items) ==
    IF items = <<>> THEN list
    ELSE TransformFrom(AppendPixel(list, PixelOut(Head(items))), Tail(items))

TransformAll(items) == TransformFrom(<<>>, items)

\* img.putdata(newData): copies the list into the image from offset 0; the
\* image keeps its size.
PutData(im, list) ==
    [im EXCEPT !.data = [i \in 1..Len(im.data) |->
                            IF i <= Len(list) THEN list[i] ELSE im.data[i]]]

\* Mutant of Catches: except (ValueError, MemoryError).
CatchesNarrow(e) == e \in {"MemoryError"}

\* except Exception: every error raised here derives from Exception.
Errors == {"FileNotFoundError", "UnidentifiedImageError", "OSError: truncated",
           "MemoryError", "OSError: cannot write"}
Catches(e) == e \in Errors

\* Mutant of ErrorLine: print("Error: ") without the description.
ErrorLineNoDesc(e) == [prefix |-> "Error: ", arg |-> ""]

SuccessLine == [prefix |-> "Success: Created ", arg |-> target]
ErrorLine(e) == [prefix |-> "Error: ", arg |-> e]

NoImage == [mode |-> "", width |-> 0, height |-> 0, data |-> <<>>]

\* --------------------------------------------------------------- state
VARIABLES
    fs,        \* the two paths' files: [source |-> file, target |-> file]
    pc,        \* position in the script
    img,       \* the in-memory image
    datas,     \* img.getdata()
    newData,   \* the list being built
    idx,       \* items of datas already consumed by the for loop
    stdout,    \* lines printed
    err,       \* the exception in flight or caught ("" when none)
    saves,     \* calls of img.save made by this run
    exit,      \* "running", "ok" (interpreter exit 0) or "crash" (traceback)
    run,       \* 1 for the first run, 2 for a run on the first run's output
    firstOut   \* the target file the first run wrote (Absent until fed back)

vars == <<fs, pc, img, datas, newData, idx, stdout, err, saves, exit, run, firstOut>>

Init ==
    /\ fs \in [source : SourceFiles, target : {Absent, Stale}]
    /\ pc = "open"
    /\ img = NoImage
    /\ datas = <<>>
    /\ newData = <<>>
    /\ idx = 0
    /\ stdout = <<>>
    /\ err = ""
    /\ saves = 0
    /\ exit = "running"
    /\ run = 1
    /\ firstOut = Absent

Raise(e) ==
    /\ pc' = "except"
    /\ err' = e

\* remove_bg.py:8  img = Image.open(source)   (reads the header only)
Open ==
    /\ pc = "open"
    /\ IF fs.source.kind = "absent"
         THEN Raise("FileNotFoundError") /\ UNCHANGED img
       ELSE IF fs.source.kind = "garbage"
         THEN Raise("UnidentifiedImageError") /\ UNCHANGED img
       ELSE /\ img' = [mode |-> fs.source.mode, width |-> fs.source.width,
                       height |-> fs.source.height, data |-> <<>>]
            /\ pc' = "convert"
            /\ UNCHANGED err
    /\ UNCHANGED <<fs, datas, newData, idx, stdout, saves, exit, run, firstOut>>

\* remove_bg.py:9  img = img.convert("RGBA")   (decodes the pixel data)
Convert ==
    /\ pc = "convert"
    /\ IF Complete(fs.source)
         THEN /\ img' = ConvertRGBA(DecodePNG(fs.source))
              /\ pc' = "getdata"
              /\ UNCHANGED err
         ELSE Raise("OSError: truncated") /\ UNCHANGED img
    /\ UNCHANGED <<fs, datas, newData, idx, stdout, saves, exit, run, firstOut>>

\* remove_bg.py:10-12  datas = img.getdata(); newData = []
GetData ==
    /\ pc = "getdata"
    /\ datas' = img.data
    /\ newData' = <<>>
    /\ idx' = 0
    /\ pc' = "loop"
    /\ UNCHANGED <<fs, img, stdout, err, saves, exit, run, firstOut>>

\* Mutant of LoopStep: the else is missing, so a near-white item appends the
\* replacement and then the item itself.
LoopStepNoElse ==
    /\ pc = "loop"
    /\ idx < Len(datas)
    /\ \E oom \in BOOLEAN :
         IF oom
           THEN Raise("MemoryError") /\ UNCHANGED <<newData, idx>>
           ELSE /\ newData' = IF IsNearWhite(datas[idx + 1])
                                THEN newData \o <<Transparent, datas[idx + 1]>>
                                ELSE Append(newData, datas[idx + 1])
                /\ idx' = idx + 1
                /\ UNCHANGED <<pc, err>>
    /\ UNCHANGED <<fs, img, datas, stdout, saves, exit, run, firstOut>>

\* remove_bg.py:13-18  one iteration of the for loop
LoopStep ==
    /\ pc = "loop"
    /\ idx < Len(datas)
    /\ \E oom \in BOOLEAN :
         IF oom
           THEN Raise("MemoryError") /\ UNCHANGED <<newData, idx>>
           ELSE /\ newData' = AppendPixel(newData, PixelOut(datas[idx + 1]))
                /\ idx' = idx + 1
                /\ UNCHANGED <<pc, err>>
    /\ UNCHANGED <<fs, img, datas, stdout, saves, exit, run, firstOut>>

\* remove_bg.py:20  img.putdata(newData), once the loop is exhausted
PutDataStep ==
    /\ pc = "loop"
    /\ idx = Len(datas)
    /\ img' = PutData(img, newData)
    /\ pc' = "save"
    /\ UNCHANGED <<fs, datas, newData, idx, stdout, err, saves, exit, run, firstOut>>

\* Mutant of Save: img.save(source, "PNG").
SaveToSource ==
    /\ pc = "save"
    /\ saves' = saves + 1
    /\ \E ok \in BOOLEAN :
         IF ok
           THEN /\ fs' = [fs EXCEPT !.source = EncodePNG(img)]
                /\ pc' = "print"
                /\ UNCHANGED err
           ELSE /\ fs' \in {[fs EXCEPT !.source = f] :
                              f \in {fs.source, Absent, Truncate(EncodePNG(img))}}
                /\ Raise("OSError: cannot write")
    /\ UNCHANGED <<img, datas, newData, idx, stdout, exit, run, firstOut>>

\* remove_bg.py:21  img.save(target, "PNG").  A failing save leaves the path
\* as it was, absent, or holding a partial file.
Save ==
    /\ pc = "save"
    /\ saves' = saves + 1
    /\ \E ok \in BOOLEAN :
         IF ok
           THEN /\ fs' = [fs EXCEPT !.target = EncodePNG(img)]
                /\ pc' = "print"
                /\ UNCHANGED err
           ELSE /\ fs' \in {[fs EXCEPT !.target = f] :
                              f \in {fs.target, Absent, Truncate(EncodePNG(img))}}
                /\ Raise("OSError: cannot write")
    /\ UNCHANGED <<img, datas, newData, idx, stdout, exit, run, firstOut>>

\* remove_bg.py:22  print(f"Success: Created {target}")
PrintSuccess ==
    /\ pc = "print"
    /\ stdout' = Append(stdout, SuccessLine)
    /\ pc' = "done"
    /\ exit' = "ok"
    /\ UNCHANGED <<fs, img, datas, newData, idx, err, saves, run, firstOut>>

\* remove_bg.py:23-24  except Exception as e: print(f"Error: {e}")
Except ==
    /\ pc = "except"
    /\ IF Catches(err)
         THEN /\ stdout' = Append(stdout, ErrorLine(err))
              /\ exit' = "ok"
         ELSE /\ exit' = "crash"
              /\ UNCHANGED stdout
    /\ pc' = "done"
    /\ UNCHANGED <<fs, img, datas, newData, idx, err, saves, run, firstOut>>

Next ==
    \/ Open
    \/ Convert
    \/ GetData
    \/ LoopStep
    \/ PutDataStep
    \/ Save
    \/ PrintSuccess
    \/ Except

Spec == Init /\ [][Next]_vars

\* The script applied to its own output: the file the first run wrote is put
\* at the source path and the script is started again.
FeedBack ==
    /\ pc = "done"
    /\ run = 1
    /\ stdout = <<SuccessLine>>
    /\ firstOut' = fs.target
    /\ fs' = [fs EXCEPT !.source = fs.target]
    /\ run' = 2
    /\ pc' = "open"
    /\ img' = NoImage
    /\ datas' = <<>>
    /\ newData' = <<>>
    /\ idx' = 0
    /\ stdout' = <<>>
    /\ err' = ""
    /\ saves' = 0
    /\ exit' = "running"

NextRerun == Next \/ FeedBack

SpecRerun == Init /\ [][NextRerun]_vars

\* ------------------------------------------------------------- claims
\* Vocabulary of the properties below.
Succeeded == pc = "done" /\ stdout = <<SuccessLine>>
OutImage == DecodePNG(fs.target)
SrcImage == DecodePNG(fs.source)
RGBOf(p) == <<p[1], p[2], p[3]>>

\* C1: every position whose converted source pixel has r > 240, g > 240 and
\* b > 240 holds exactly (255, 255, 255, 0) in the written output image,
\* whatever the alpha of the source pixel.
C1_NearWhiteBecomesTransparent ==
    Succeeded =>
        \A i \in 1..Len(datas) :
            (datas[i][1] > 240 /\ datas[i][2] > 240 /\ datas[i][3] > 240)
                => OutImage.data[i] = <<255, 255, 255, 0>>

C1_Witness ==
    /\ Succeeded
    /\ \E i \in 1..Len(datas) :
          /\ datas[i] = <<241, 241, 241, 128>>
          /\ OutImage.data[i] = <<255, 255, 255, 0>>

\* C2: a position whose source pixel fails the threshold test keeps its
\* (r, g, b) in the output; its alpha is the source alpha for a source with an
\* alpha channel and 255 for a three-channel source.  The three-channel 2x1
\* image [(255,255,255), (10,20,30)] yields [(255,255,255,0), (10,20,30,255)].
C2_Example ==
    [kind |-> "png", mode |-> "RGB", width |-> 2, height |-> 1,
     bytes |-> <<255, 255, 255, 10, 20, 30>>]

C3_StrictThreshold ==
    \A i \in 1..Len(newData) :
        LET p == datas[i]
            replaced == newData[i] = <<255, 255, 255, 0>>
        IN  /\ replaced <=> (p[1] >= 241 /\ p[2] >= 241 /\ p[3] >= 241)
            /\ ~replaced => newData[i] = p
            /\ RGBOf(p) = <<240, 240, 240>> => newData[i] = p
            /\ RGBOf(p) = <<241, 241, 241>> => replaced
            /\ RGBOf(p) = <<241, 241, 239>> => newData[i] = p

C3_Witness ==
    /\ Len(newData) = 2
    /\ datas[1] = <<240, 240, 240, 255>> /\ newData[1] = datas[1]
    /\ datas[2] = <<241, 241, 241, 255>> /\ newData[2] = <<255, 255, 255, 0>>

\* C4: the script run on its own output writes the same image again.
C4_Idempotent ==
    (run = 2 /\ Succeeded) =>
        /\ fs.target = firstOut
        /\ OutImage = DecodePNG(firstOut)

C4_Witness ==
    /\ run = 2
    /\ Succeeded
    /\ Len(OutImage.data) = 2
    /\ OutImage.data[1] = <<255, 255, 255, 0>>
    /\ OutImage.data[2] = <<241, 241, 239, 128>>

\* C5: the output image has the width and height of the input image, and one
\* output pixel per source pixel, each at its source pixel's position.
C5_SameDimensions ==
    Succeeded =>
        /\ fs.target.width = fs.source.width
        /\ fs.target.height = fs.source.height
        /\ Len(newData) = Len(datas)
        /\ Len(OutImage.data) = fs.source.width * fs.source.height
        /\ \A i \in 1..Len(OutImage.data) :
              OutImage.data[i] \in {ConvertPixel(fs.source.mode, SrcImage.data[i]),
                                    <<255, 255, 255, 0>>}

C5_Witness ==
    /\ Succeeded
    /\ fs.source.width = 1 /\ fs.source.height = 2
    /\ fs.target.width = 1 /\ fs.target.height = 2
    /\ OutImage.data[1] # OutImage.data[2]

\* C6: with no file at the source path the run prints one error line, creates
\* no output file and ends in the normal exit state.
C6_MissingSource ==
    /\ [](fs.source.kind = "absent" =>
            /\ saves = 0
            /\ exit # "crash"
            /\ pc = "done" =>
                  /\ exit = "ok"
                  /\ Len(stdout) = 1
                  /\ stdout[1].prefix = "Error: ")
    /\ [][fs.source.kind = "absent" => fs'.target = fs.target]_vars

C6_Witness ==
    /\ fs.source.kind = "absent"
    /\ fs.target.kind = "absent"
    /\ pc = "done"
    /\ exit = "ok"
    /\ stdout = <<ErrorLine("FileNotFoundError")>>

\* C7: a run prints exactly one line: the success line exactly when load,
\* conversion, transform and save all completed, otherwise one error line
\* carrying the failure's description; never both, never none.
C7_OneLine ==
    /\ Len(stdout) <= 1
    /\ pc = "done" =>
          /\ Len(stdout) = 1
          /\ stdout[1] = SuccessLine <=> err = ""
          /\ err = "" =>
                /\ img.mode = "RGBA"
                /\ idx = Len(datas)
                /\ img.data = newData
                /\ saves = 1
                /\ fs.target = EncodePNG(img)
          /\ err # "" => stdout[1] = [prefix |-> "Error: ", arg |-> err]
    /\ pc # "done" => stdout = <<>>

C7_Witness ==
    /\ pc = "done"
    /\ err = "OSError: cannot write"
    /\ saves = 1
    /\ stdout = <<[prefix |-> "Error: ", arg |-> "OSError: cannot write"]>>

\* C8: the decision reads only r, g and b: two items with the same (r, g, b)
\* and different alpha are both replaced or both retained unchanged.
C8_AlphaIgnored ==
    \A i, j \in 1..Len(newData) :
        (RGBOf(datas[i]) = RGBOf(datas[j]) /\ datas[i][4] # datas[j][4]) =>
            \/ newData[i] = <<255, 255, 255, 0>> /\ newData[j] = <<255, 255, 255, 0>>
            \/ newData[i] = datas[i] /\ newData[j] = datas[j]

C8_Witness ==
    /\ Len(newData) = 2
    /\ datas[1] = <<255, 255, 255, 128>>
    /\ datas[2] = <<255, 255, 255, 255>>
    /\ newData[1] = newData[2]

\* C9: the final image does not depend on the order of the visit: feeding the
\* loop the items in any permutation of the row-major order and putting each
\* result at its item's position gives the image the run built.
Permute(s, perm) == [k \in 1..Len(s) |-> s[perm[k]]]
Unpermute(r, perm) ==
    [p \in DOMAIN perm |-> r[CHOOSE k \in DOMAIN perm : perm[k] = p]]
LoopFinished == pc \in {"save", "print"} \/ saves > 0

C9_OrderIndependent ==
    LoopFinished =>
        \A perm \in Permutations(1..Len(datas)) :
            /\ Len(TransformAll(Permute(datas, perm))) = Len(datas)
            /\ Unpermute(TransformAll(Permute(datas, perm)), perm) = img.data

C9_Witness ==
    /\ LoopFinished
    /\ Len(datas) = 2
    /\ img.data[1] = <<255, 255, 255, 0>>
    /\ img.data[2] = <<10, 20, 30, 255>>

\* C10: the target is written only after every pixel has been transformed,
\* img.save is called at most once per run, a failure in load, conversion or
\* transform leaves the target as it was, and the source is never written.
C10_SaveLastAndOnce ==
    /\ [](saves <= 1)
    /\ [](err \in {"FileNotFoundError", "UnidentifiedImageError",
                   "OSError: truncated", "MemoryError"} => saves = 0)
    /\ [][(fs'.target # fs.target \/ saves' # saves) =>
            /\ saves = 0
            /\ idx = Len(datas)
            /\ Len(newData) = Len(datas)
            /\ img.data = newData]_vars
    /\ [][fs'.source = fs.source]_vars

C10_Witness ==
    /\ pc = "done"
    /\ err = "MemoryError"
    /\ idx = 1
    /\ saves = 0
    /\ fs.target = Stale

====
